---- MODULE Spec2Model ----
(***************************************************************************)
(* Model of llama_cpp_openai:                                              *)
(*   - llama2_functary_chat_completion_handler                             *)
(*     (_llama_2_functionary_chat_handler.py): tool header, turn grouping  *)
(*     and flushing, streaming assertion, inference call, completion       *)
(*     parsing and response assembly, one step per statement group;        *)
(*   - start_openai_api_server and the two endpoints (_api_server.py):     *)
(*     server thread bootstrap, request validation, and the calls into     *)
(*     the Llama collaborator made from the event loop.                    *)
(* Spec is the handler, SpecServer is the API server.                      *)
(***************************************************************************)
EXTENDS Integers, Sequences, FiniteSets, TLC

VARIABLES
    \* ---- handler call (Spec) ----
    messages,         \* argument `messages`
    tools,            \* argument `tools`: NoTools (None) or ToolList(list)
    stream,           \* argument `stream`
    pc,               \* position of the handler call
    header,           \* value of _format_tools(...)
    idx,              \* number of messages the iterator `i` has handed out
    state,            \* _format_messages: the three-slot accumulator
    lines,            \* _format_messages: emitted blocks
    prompt,           \* the compiled prompt, None until line 141 has completed
    calls,            \* prompts passed to llama.create_completion, in order
    completion,       \* result of llama.create_completion
    response,         \* value returned by the handler, None if none
    error,            \* exception that left the handler
    \* ---- API server (SpecServer) ----
    mainPc,           \* caller of start_openai_api_server
    serverPc,         \* the uvicorn thread
    server_ready,     \* threading.Event
    requests,         \* HTTP requests, by id
    loopTask,         \* request whose coroutine is running on the event loop, 0 if none
    inFlight,         \* requests with a call into llm not yet returned
    llmCalls          \* calls made into llm, in order

handlerVars == <<messages, tools, stream, pc, header, idx, state, lines, prompt,
                 calls, completion, response, error>>
serverVars == <<mainPc, serverPc, server_ready, requests, loopTask, inFlight,
                llmCalls>>
vars == <<handlerVars, serverVars>>

-----------------------------------------------------------------------------
(* Bounds *)

MaxTurns == 4

MaxTools == 2

MaxRequests == 2

-----------------------------------------------------------------------------
(* Python values *)

\* Python None, where the other values of the field are strings.
None == "<None>"

\* str(x) as an f-string formats it.
Str(x) == IF x = None THEN "None" ELSE x

RECURSIVE Join(_, _)
\* sep.join(seq)
Join(seq, sep) ==
    IF seq = <<>> THEN ""
    ELSE IF Len(seq) = 1 THEN seq[1]
    ELSE seq[1] \o sep \o Join(Tail(seq), sep)

\* JSON values as json.loads returns them: str, int, dict (insertion ordered), list.
JStr(s) == [t |-> "str", s |-> s, n |-> 0, m |-> <<>>]
JNum(n) == [t |-> "num", s |-> "", n |-> n, m |-> <<>>]
JObj(members) == [t |-> "obj", s |-> "", n |-> 0, m |-> members]
JArr(items) == [t |-> "arr", s |-> "", n |-> 0, m |-> items]

RECURSIVE Spaces(_)
Spaces(n) == IF n <= 0 THEN "" ELSE " " \o Spaces(n - 1)

RECURSIVE Dumps(_, _, _)
RECURSIVE DumpsMembers(_, _, _, _)
\* json.dumps(v, indent=indent) at nesting depth `level`; indent < 0 is indent=None.
\* Strings here hold no character json.dumps escapes.
Dumps(v, indent, level) ==
    LET open == IF indent < 0 THEN "" ELSE "\n" \o Spaces(indent * (level + 1))
        close == IF indent < 0 THEN "" ELSE "\n" \o Spaces(indent * level)
    IN  CASE v.t = "str" -> "\"" \o v.s \o "\""
          [] v.t = "num" -> ToString(v.n)
          [] v.t = "obj" ->
                IF v.m = <<>> THEN "{}"
                ELSE "{" \o open \o DumpsMembers(v.m, TRUE, indent, level + 1) \o close \o "}"
          [] v.t = "arr" ->
                IF v.m = <<>> THEN "[]"
                ELSE "[" \o open \o DumpsMembers(v.m, FALSE, indent, level + 1) \o close \o "]"

DumpsMembers(ms, keyed, indent, level) ==
    LET sep == IF indent < 0 THEN ", " ELSE "," \o "\n" \o Spaces(indent * level)
        one == IF keyed
               THEN "\"" \o ms[1][1] \o "\": " \o Dumps(ms[1][2], indent, level)
               ELSE Dumps(ms[1], indent, level)
    IN  IF Len(ms) = 1 THEN one
        ELSE one \o sep \o DumpsMembers(Tail(ms), keyed, indent, level)

\* v[key] for a decoded value: the value, or the exception Python raises.
HasKey(v, key) == v.t = "obj" /\ \E k \in 1..Len(v.m) : v.m[k][1] = key

GetItem(v, key) ==
    IF v.t = "obj"
    THEN IF HasKey(v, key)
         THEN [ok |-> TRUE, err |-> "",
               v |-> v.m[CHOOSE k \in 1..Len(v.m) : v.m[k][1] = key][2]]
         ELSE [ok |-> FALSE, err |-> "KeyError", v |-> JNum(0)]
    ELSE [ok |-> FALSE, err |-> "TypeError", v |-> JNum(0)]

-----------------------------------------------------------------------------
(* json.loads on the texts the model draws: function-call arguments of the  *)
(* request and raw completions of the model.                                *)

TokyoArgs == JObj(<< <<"location", JStr("Tokyo")>> >>)

TextWeatherCall == "{\"function\":\"weather\",\"arguments\":{\"location\":\"Tokyo\"}}"
TextPlain == "The weather is nice."
TextFooBar == "{\"foo\":\"bar\"}"
TextNumber == "5"
TextArray == "[1]"
TextNoArguments == "{\"function\":\"weather\"}"
TextNoFunction == "{\"arguments\":{}}"
TextWrongTypes == "{\"function\": 5, \"arguments\": \"x\"}"
TextArgsGood == "{\"location\": \"Tokyo\"}"
TextArgsBad == "{location: Tokyo"

\* json.loads(text): ok with the decoded value, or not ok (json.JSONDecodeError).
JsonLoads(text) ==
    LET yes(v) == [ok |-> TRUE, v |-> v]
    IN  CASE text = TextWeatherCall ->
                yes(JObj(<< <<"function", JStr("weather")>>, <<"arguments", TokyoArgs>> >>))
          [] text = TextFooBar -> yes(JObj(<< <<"foo", JStr("bar")>> >>))
          [] text = TextNumber -> yes(JNum(5))
          [] text = TextArray -> yes(JArr(<<JNum(1)>>))
          [] text = TextNoArguments -> yes(JObj(<< <<"function", JStr("weather")>> >>))
          [] text = TextNoFunction -> yes(JObj(<< <<"arguments", JObj(<<>>)>> >>))
          [] text = TextWrongTypes ->
                yes(JObj(<< <<"function", JNum(5)>>, <<"arguments", JStr("x")>> >>))
          [] text = TextArgsGood -> yes(TokyoArgs)
          [] OTHER -> [ok |-> FALSE, v |-> JNum(0)]

\* Raw texts llama.create_completion may return.
RawTexts ==
    {TextPlain, TextWeatherCall, TextFooBar, TextNumber, TextArray,
     TextNoArguments, TextNoFunction, TextWrongTypes}

-----------------------------------------------------------------------------
(* Inputs of the handler *)

\* A message: content (a string or None), function_call and tool_calls as
\* sequences that are empty when the key is absent from the dict.
Msg(role, content, fc, tcs) ==
    [role |-> role, content |-> content, function_call |-> fc, tool_calls |-> tcs]

Plain(role, content) == Msg(role, content, <<>>, <<>>)

GoodCall == [name |-> "weather", arguments |-> TextArgsGood]
BadCall == [name |-> "weather", arguments |-> TextArgsBad]

Turns ==
    { Plain("system", "Be brief."),
      Plain("user", "hello"),
      Plain("user", "bye"),
      Plain("user", None),
      Plain("assistant", "hi"),
      Msg("assistant", None, <<GoodCall>>, <<>>),
      Msg("assistant", None, <<>>, << [function |-> BadCall] >>),
      Plain("function", "sunny"),
      Plain("tool", "sunny") }

RECURSIVE SeqsUpTo(_, _)
\* The sequences over S of length at most n.
SeqsUpTo(S, n) ==
    IF n = 0 THEN { <<>> }
    ELSE LET shorter == SeqsUpTo(S, n - 1)
         IN  shorter \cup { Append(q, x) : q \in shorter, x \in S }

\* A tool: description is None when the key is absent; properties in dict order.
Tool(name, description, properties, required) ==
    [name |-> name, description |-> description,
     properties |-> properties, required |-> required]

WeatherTool ==
    Tool("weather", "Get the weather", << <<"location", "string">> >>, <<"location">>)
ConvertTool ==
    Tool("convert", "Convert currency",
         << <<"amount", "number">>, <<"currency", "string">> >>, <<"amount">>)
BareTool == Tool("ping", None, << <<"host", "string">> >>, <<>>)

ToolSet == {WeatherTool, ConvertTool, BareTool}

\* The argument `tools`: None, or a list of tools.
NoTools == [none |-> TRUE, list |-> <<>>]
ToolList(list) == [none |-> FALSE, list |-> list]

ToolArgs == {NoTools} \cup { ToolList(l) : l \in SeqsUpTo(ToolSet, MaxTools) }

-----------------------------------------------------------------------------
(* llama2_functary_chat_completion_handler *)

NoError == [kind |-> "", at |-> 0]
Raised(kind, at) == [kind |-> kind, at |-> at]

\* TrelisTool with the required names carried into the entry.
TrelisToolWithRequired(tool) ==
    JObj(<< <<"function", JStr(tool.name)>>,
            <<"description", JStr(tool.description)>>,
            <<"arguments",
              JArr([k \in 1..Len(tool.properties) |->
                      JObj(<< <<"name", JStr(tool.properties[k][1])>>,
                              <<"type", JStr(tool.properties[k][2])>> >>)])>>,
            <<"required",
              JArr([k \in 1..Len(tool.required) |-> JStr(tool.required[k])])>> >>)

\* Lines 62-69: the entry _format_tools builds for one tool.
TrelisTool(tool) ==
    JObj(<< <<"function", JStr(tool.name)>>,
            <<"description", JStr(tool.description)>>,
            <<"arguments",
              JArr([k \in 1..Len(tool.properties) |->
                      JObj(<< <<"name", JStr(tool.properties[k][1])>>,
                              <<"type", JStr(tool.properties[k][2])>> >>)])>> >>)

\* _format_tools: the header, or the KeyError of tool["function"]["description"].
FormatTools(tls) ==
    IF tls.none \/ Len(tls.list) = 0
    THEN [ok |-> TRUE, v |-> "", err |-> ""]
    ELSE IF \E k \in 1..Len(tls.list) : tls.list[k].description = None
    THEN [ok |-> FALSE, v |-> "", err |-> "KeyError"]
    ELSE [ok |-> TRUE, err |-> "",
          v |-> "<FUNCTIONS>"
                \o Dumps(JArr([k \in 1..Len(tls.list) |-> TrelisTool(tls.list[k])]), 4, 0)
                \o "</FUNCTIONS>\n\n"]

\* _reset_state
ResetState == [user |-> None, system |-> None, assistant |-> None]

\* RenderBlock with the assistant part rendered only next to a user part.
RenderBlockNeedsUser(st) ==
    LET system == IF st.system # None
                  THEN "<<SYS>>\n" \o st.system \o "\n<</SYS>>\n\n"
                  ELSE ""
        inst == IF st.user # None
                THEN "[INST] " \o system \o st.user \o " [/INST]"
                ELSE ""
    IN  IF st.assistant # None /\ st.user # None
        THEN "<s>" \o inst \o " " \o st.assistant \o "</s>"
        ELSE inst

\* The block _push_state renders from the slots (lines 91-100).
RenderBlock(st) ==
    LET system == IF st.system # None
                  THEN "<<SYS>>\n" \o st.system \o "\n<</SYS>>\n\n"
                  ELSE ""
        inst == IF st.user # None
                THEN "[INST] " \o system \o st.user \o " [/INST]"
                ELSE ""
    IN  IF st.assistant # None
        THEN "<s>" \o inst \o " " \o st.assistant \o "</s>"
        ELSE inst

\* PushSkips without the early return of lines 85-86 (target slot still empty).
PushSkipsOnlyEmpty(st, role) ==
    st.user = None /\ st.system = None /\ st.assistant = None

\* PushSkips with the final call, _push_state(role=None), returning early too.
PushSkipsFinalToo(st, role) ==
    \/ role = None
    \/ st[role] = None
    \/ st.user = None /\ st.system = None /\ st.assistant = None

\* Whether _push_state(role) returns early, leaving lines and state alone.
PushSkips(st, role) ==
    \/ role # None /\ st[role] = None
    \/ st.user = None /\ st.system = None /\ st.assistant = None

\* PushState without the _reset_state() of line 103.
PushStateNoReset(st, ls, role) ==
    IF PushSkips(st, role)
    THEN [state |-> st, lines |-> ls]
    ELSE [state |-> st, lines |-> Append(ls, RenderBlock(st))]

\* _push_state(role): the slots and the lines after the call.
PushState(st, ls, role) ==
    IF PushSkips(st, role)
    THEN [state |-> st, lines |-> ls]
    ELSE [state |-> ResetState, lines |-> Append(ls, RenderBlock(st))]

\* _format_function_call
FormatFunctionCall(function_call) ==
    LET args == JsonLoads(function_call.arguments)
    IN  IF args.ok
        THEN [ok |-> TRUE, err |-> "",
              v |-> Dumps(JObj(<< <<"function", JStr(function_call.name)>>,
                                  <<"arguments", args.v>> >>), -1, 0)]
        ELSE [ok |-> FALSE, err |-> "JSONDecodeError", v |-> ""]

\* _format_message_content
FormatMessageContent(message) ==
    IF message.role = "assistant" /\ message.tool_calls # <<>>
    THEN FormatFunctionCall(message.tool_calls[1].function)
    ELSE IF message.role = "assistant" /\ message.function_call # <<>>
    THEN FormatFunctionCall(message.function_call[1])
    ELSE IF message.role = "function"
    THEN [ok |-> TRUE, err |-> "",
          v |-> "Here is the response to that function call:\n\n\""
                \o Str(message.content) \o "\""]
    ELSE [ok |-> TRUE, err |-> "", v |-> message.content]

\* TargetSlot with function turns written to the system slot.
TargetSlotFunctionAsSystem(role) ==
    CASE role = "user" -> "user"
      [] role = "system" \/ role = "function" -> "system"
      [] role = "assistant" -> "assistant"
      [] OTHER -> ""

\* TargetSlot without the function role at line 126.
TargetSlotNoFunction(role) ==
    CASE role = "user" -> "user"
      [] role = "system" -> "system"
      [] role = "assistant" -> "assistant"
      [] OTHER -> ""

\* TargetSlot with the else branch of line 134 treating the turn as a user turn.
TargetSlotLenient(role) ==
    CASE role = "system" -> "system"
      [] role = "assistant" -> "assistant"
      [] OTHER -> "user"

\* The slot a turn of this role writes, "" when the role is not recognised.
TargetSlot(role) ==
    CASE role = "user" \/ role = "function" -> "user"
      [] role = "system" -> "system"
      [] role = "assistant" -> "assistant"
      [] OTHER -> ""

\* _parse_tool_calls: the tool-call list, None (json.JSONDecodeError caught at
\* line 178), or the exception that subscripting the decoded value raises.
ParseToolCalls(text) ==
    LET decoded == JsonLoads(text)
        fn == GetItem(decoded.v, "function")
        args == GetItem(decoded.v, "arguments")
        result(ok, err, none, tcs) ==
            [ok |-> ok, err |-> err, none |-> none, tool_calls |-> tcs]
    IN  IF ~decoded.ok THEN result(TRUE, "", TRUE, <<>>)
        ELSE IF ~fn.ok THEN result(FALSE, fn.err, FALSE, <<>>)
        ELSE IF ~args.ok THEN result(FALSE, args.err, FALSE, <<>>)
        ELSE result(TRUE, "", FALSE,
                    << [id |-> fn.v, type |-> "function",
                        function |-> [name |-> fn.v,
                                      arguments |-> Dumps(args.v, 2, 0)]] >>)

\* ResponseMessage without the mirrored function_call of line 189.
ResponseMessageNoLegacy(parsed, text) ==
    IF ~parsed.none
    THEN [role |-> "assistant", content |-> None, tool_calls |-> parsed.tool_calls]
    ELSE [role |-> "assistant", content |-> text]

\* The assistant message of lines 181-191.
ResponseMessage(parsed, text) ==
    IF ~parsed.none
    THEN [role |-> "assistant", content |-> None,
          tool_calls |-> parsed.tool_calls,
          function_call |-> parsed.tool_calls[1].function]
    ELSE [role |-> "assistant", content |-> text]

\* ChatResponse with finish_reason "tool_calls" when the message is a function call.
ChatResponseToolFinish(c, message) ==
    [id |-> "chat" \o c.id, object |-> "chat.completion", created |-> c.created,
     model |-> c.model,
     choices |-> << [index |-> 0, message |-> message,
                     finish_reason |-> IF message.content = None
                                       THEN "tool_calls" ELSE "stop"] >>,
     usage |-> c.usage]

\* The CreateChatCompletionResponse of lines 193-204.
ChatResponse(c, message) ==
    [id |-> "chat" \o c.id, object |-> "chat.completion", created |-> c.created,
     model |-> c.model,
     choices |-> << [index |-> 0, message |-> message, finish_reason |-> "stop"] >>,
     usage |-> c.usage]

\* Results llama.create_completion may return.
Completions ==
    { [id |-> "cmpl-1", created |-> 1700000000, model |-> "functionary",
       choices |-> << [text |-> text] >>,
       usage |-> [prompt_tokens |-> 7, completion_tokens |-> 3, total_tokens |-> 10]]
      : text \in RawTexts }

\* The call starts: arguments bound, nothing computed. The inputs drawn hold at
\* most MaxTurns messages and tools together, and at most MaxTools tools.
HandlerInit ==
    /\ messages \in SeqsUpTo(Turns, MaxTurns) \ { <<>> }
    /\ tools \in ToolArgs
    /\ stream \in BOOLEAN
    /\ Len(messages) + (IF tools.none THEN 0 ELSE Len(tools.list)) <= MaxTurns
    /\ pc = "format_tools"
    /\ header = None
    /\ idx = 0
    /\ state = ResetState
    /\ lines = <<>>
    /\ prompt = None
    /\ calls = <<>>
    /\ completion = <<>>
    /\ response = <<>>
    /\ error = NoError

\* An exception leaves the handler.
Raise(kind, at) ==
    /\ pc' = "done"
    /\ error' = Raised(kind, at)

\* Line 141, left operand: _format_tools(messages, functions, tools).
DoFormatTools ==
    /\ pc = "format_tools"
    /\ LET r == FormatTools(tools)
       IN  IF r.ok
           THEN /\ header' = r.v
                /\ pc' = "format_messages"
                /\ error' = error
           ELSE /\ Raise(r.err, 0)
                /\ header' = header
    /\ UNCHANGED <<messages, tools, stream, idx, state, lines, prompt, calls,
                   completion, response>>
    /\ UNCHANGED serverVars

\* Lines 124-135: one iteration of the loop of _format_messages.
DoMessage ==
    /\ pc = "format_messages"
    /\ idx < Len(messages)
    /\ idx' = idx + 1
    /\ LET message == messages[idx + 1]
           slot == TargetSlot(message.role)
       IN  IF slot = ""
           THEN /\ Raise("ValueError", idx + 1)
                /\ UNCHANGED <<state, lines>>
           ELSE LET pushed == PushState(state, lines, slot)
                    content == FormatMessageContent(message)
                IN  /\ lines' = pushed.lines
                    /\ IF content.ok
                       THEN /\ state' = [pushed.state EXCEPT ![slot] = content.v]
                            /\ UNCHANGED <<pc, error>>
                       ELSE /\ state' = pushed.state
                            /\ Raise(content.err, idx + 1)
    /\ UNCHANGED <<messages, tools, stream, header, prompt, calls, completion,
                   response>>
    /\ UNCHANGED serverVars

\* Lines 136-139 and the concatenation of line 141: StopIteration, the final
\* _push_state(role=None) whose None result is assigned to state, the join.
DoStopIteration ==
    /\ pc = "format_messages"
    /\ idx = Len(messages)
    /\ LET pushed == PushState(state, lines, None)
       IN  /\ lines' = pushed.lines
           /\ prompt' = header \o Join(pushed.lines, "\n")
    /\ state' = None
    /\ pc' = "assert_stream"
    /\ UNCHANGED <<messages, tools, stream, header, idx, calls, completion,
                   response, error>>
    /\ UNCHANGED serverVars

\* DoAssertStream with the assertion of line 143 not evaluated.
DoAssertStreamStripped ==
    /\ pc = "assert_stream"
    /\ pc' = "create_completion"
    /\ UNCHANGED <<messages, tools, stream, header, idx, state, lines, prompt,
                   calls, completion, response, error>>
    /\ UNCHANGED serverVars

\* Line 143: assert stream == False.
DoAssertStream ==
    /\ pc = "assert_stream"
    /\ IF stream
       THEN Raise("AssertionError", 0)
       ELSE pc' = "create_completion" /\ error' = error
    /\ UNCHANGED <<messages, tools, stream, header, idx, state, lines, prompt,
                   calls, completion, response>>
    /\ UNCHANGED serverVars

\* Lines 144-164: llama.create_completion(prompt=prompt, stop=..., stream=False, ...).
DoCreateCompletion ==
    /\ pc = "create_completion"
    /\ calls' = Append(calls, [prompt |-> prompt, stop |-> <<"user:", "</s>">>,
                               stream |-> FALSE])
    /\ \E c \in Completions : completion' = <<c>>
    /\ pc' = "respond"
    /\ UNCHANGED <<messages, tools, stream, header, idx, state, lines, prompt,
                   response, error>>
    /\ UNCHANGED serverVars

\* Lines 181-204: parse the completion, build the message, return the response.
DoRespond ==
    /\ pc = "respond"
    /\ LET text == completion[1].choices[1].text
           parsed == ParseToolCalls(text)
       IN  IF parsed.ok
           THEN /\ response' = << ChatResponse(completion[1],
                                               ResponseMessage(parsed, text)) >>
                /\ pc' = "done"
                /\ error' = error
           ELSE /\ Raise(parsed.err, 0)
                /\ response' = response
    /\ UNCHANGED <<messages, tools, stream, header, idx, state, lines, prompt,
                   calls, completion>>
    /\ UNCHANGED serverVars

HandlerNext ==
    \/ DoFormatTools
    \/ DoMessage
    \/ DoStopIteration
    \/ DoAssertStream
    \/ DoCreateCompletion
    \/ DoRespond

-----------------------------------------------------------------------------
(* _api_server.py: request models *)

JNull == [t |-> "null", s |-> "", n |-> 0, m |-> <<>>]

\* A message of a request body as the client sent it; a field that is null or
\* missing is JNull, function_call is empty when null or missing.
RawMsg(role, content, name, fc) ==
    [role |-> role, content |-> content, name |-> name, function_call |-> fc]

ChatBody(msgs, model, tls) == [messages |-> msgs, model |-> model, tools |-> tls]

EmbeddingsBody(input, model, fmt) ==
    [input |-> input, model |-> model, encoding_format |-> fmt]

UserHello == RawMsg(JStr("user"), JStr("Hello"), JNull, <<>>)

ChatBodies ==
    { ChatBody(<<UserHello>>, JStr("test_model"), NoTools),
      ChatBody(<< RawMsg(JStr("system"), JStr("Be brief."), JNull, <<>>),
                  UserHello,
                  RawMsg(JStr("assistant"), JNull, JNull, <<GoodCall>>),
                  RawMsg(JStr("function"), JStr("sunny"), JStr("weather"), <<>>) >>,
               JStr("test_model"), ToolList(<<WeatherTool>>)),
      ChatBody(<< UserHello, RawMsg(JStr("tool"), JStr("sunny"), JNull, <<>>) >>,
               JStr("test_model"), NoTools),
      ChatBody(<< RawMsg(JNum(5), JStr("Hello"), JNull, <<>>) >>,
               JStr("test_model"), NoTools),
      ChatBody(<< UserHello, RawMsg(JNull, JStr("Hello"), JNull, <<>>) >>,
               JStr("test_model"), NoTools),
      ChatBody(<< UserHello, RawMsg(JStr("assistant"), JNull, JNull, <<>>) >>,
               JStr("test_model"), NoTools),
      ChatBody(<<UserHello>>, JNull, NoTools),
      ChatBody(<<UserHello>>, JStr("test_model"), ToolList(<<BareTool>>)) }

EmbeddingsBodies ==
    { EmbeddingsBody(JStr("test input"), JStr("test_model"), JNull),
      EmbeddingsBody(JArr(<<JStr("a"), JStr("b")>>), JStr("test_model"), JStr("float")),
      EmbeddingsBody(JNum(5), JStr("test_model"), JNull) }

\* ChatCompletionsRequestMessage: role: str; content, name: Optional[str].
ValidMessage(m) ==
    /\ m.role.t = "str"
    /\ m.content.t \in {"str", "null"}
    /\ m.name.t \in {"str", "null"}

\* ChatCompletionsRequest: messages: List[...]; model: str; tools optional.
ValidChatRequest(body) ==
    /\ body.model.t = "str"
    /\ \A k \in 1..Len(body.messages) : ValidMessage(body.messages[k])

\* EmbeddingsRequest: model: str; input: Union[str, List[str]].
ValidEmbeddingsRequest(body) ==
    /\ body.model.t = "str"
    /\ \/ body.input.t = "str"
       \/ body.input.t = "arr" /\ \A k \in 1..Len(body.input.m) : body.input.m[k].t = "str"
    /\ body.encoding_format.t \in {"str", "null"}

\* Lines 166-172: model_dump(exclude_none=True) of one message, then the
\* content key restored as None; name is empty when the key is dropped.
DumpMessage(m) ==
    [role |-> m.role.s,
     content |-> IF m.content.t = "str" THEN m.content.s ELSE None,
     name |-> IF m.name.t = "str" THEN <<m.name.s>> ELSE <<>>,
     function_call |-> m.function_call]

\* ChatCall with an empty list, not None, for a request without tools.
ChatCallEmptyTools(r, body) ==
    [fn |-> "create_chat_completion", request |-> r,
     messages |-> [k \in 1..Len(body.messages) |-> DumpMessage(body.messages[k])],
     tools |-> IF body.tools.none THEN ToolList(<<>>) ELSE body.tools]

\* Lines 174-177: the keyword arguments of llm.create_chat_completion.
ChatCall(r, body) ==
    [fn |-> "create_chat_completion", request |-> r,
     messages |-> [k \in 1..Len(body.messages) |-> DumpMessage(body.messages[k])],
     tools |-> body.tools]

\* EmbeddingCall with encoding_format passed on to llm.
EmbeddingCallWithFormat(r, body) ==
    [fn |-> "create_embedding", request |-> r,
     input |-> body.input, model |-> body.model.s,
     encoding_format |-> body.encoding_format]

\* Lines 196-199: the keyword arguments of llm.create_embedding.
EmbeddingCall(r, body) ==
    [fn |-> "create_embedding", request |-> r,
     input |-> body.input, model |-> body.model.s]

-----------------------------------------------------------------------------
(* start_openai_api_server and the server thread *)

Requests == 1..MaxRequests

\* A request not yet sent; returned is what llm returned, result the response.
Unsent == [st |-> "unsent", kind |-> "", body |-> <<>>, returned |-> "", result |-> ""]

ServerInit ==
    /\ mainPc = "start"
    /\ serverPc = "not_started"
    /\ server_ready = FALSE
    /\ requests = [r \in Requests |-> Unsent]
    /\ loopTask = 0
    /\ inFlight = {}
    /\ llmCalls = <<>>

\* Lines 226-252: the Event, the app and the thread are built; thread.start().
ThreadStart ==
    /\ mainPc = "start"
    /\ mainPc' = "wait"
    /\ serverPc' = "run"
    /\ UNCHANGED <<server_ready, requests, loopTask, inFlight, llmCalls>>
    /\ UNCHANGED handlerVars

\* Line 253-254: server_ready.wait() returns once the event is set; return.
WaitReturns ==
    /\ mainPc = "wait"
    /\ server_ready
    /\ mainPc' = "returned"
    /\ UNCHANGED <<serverPc, server_ready, requests, loopTask, inFlight, llmCalls>>
    /\ UNCHANGED handlerVars

\* Lines 228-231: uvicorn.run starts the application: the lifespan context is
\* entered, which sets server_ready, before the server opens its socket.
LifespanStartup ==
    /\ serverPc = "run"
    /\ server_ready' = TRUE
    /\ serverPc' = "started"
    /\ UNCHANGED <<mainPc, requests, loopTask, inFlight, llmCalls>>
    /\ UNCHANGED handlerVars

\* Lines 245-249: uvicorn.run fails before the application is started.
ServerFailsEarly ==
    /\ serverPc = "run"
    /\ serverPc' = "crashed"
    /\ UNCHANGED <<mainPc, server_ready, requests, loopTask, inFlight, llmCalls>>
    /\ UNCHANGED handlerVars

\* Lines 245-249: uvicorn binds host:port and listens, or the bind fails.
Bind ==
    /\ serverPc = "started"
    /\ serverPc' \in {"listening", "bind_failed"}
    /\ UNCHANGED <<mainPc, server_ready, requests, loopTask, inFlight, llmCalls>>
    /\ UNCHANGED handlerVars

\* The caller, back from start_openai_api_server, posts a request.
SendRequest(r) ==
    /\ mainPc = "returned"
    /\ requests[r].st = "unsent"
    /\ \E kind \in {"chat", "embeddings"} :
         \E body \in (IF kind = "chat" THEN ChatBodies ELSE EmbeddingsBodies) :
            requests' = [requests EXCEPT ![r] =
                [st |-> IF serverPc = "listening" THEN "received" ELSE "refused",
                 kind |-> kind, body |-> body, returned |-> "", result |-> ""]]
    /\ UNCHANGED <<mainPc, serverPc, server_ready, loopTask, inFlight, llmCalls>>
    /\ UNCHANGED handlerVars

\* LoopDuringCall for endpoints run off the event loop (plain def routes).
LoopDuringCallThreadpool(r) == 0

\* The task the event loop is occupied by once request r has entered llm: the
\* endpoints are coroutines (async def) that call llm without awaiting, so the
\* loop runs nothing else until the call returns.
LoopDuringCall(r) == r

\* Lines 235-241 with 146-177 and 179-199: the route validates the body and,
\* if valid, runs the endpoint coroutine up to its call into llm.
Dispatch(r) ==
    /\ serverPc = "listening"
    /\ loopTask = 0
    /\ requests[r].st = "received"
    /\ LET req == requests[r]
           valid == IF req.kind = "chat"
                    THEN ValidChatRequest(req.body)
                    ELSE ValidEmbeddingsRequest(req.body)
       IN  IF valid
           THEN /\ requests' = [requests EXCEPT ![r].st = "calling"]
                /\ llmCalls' = Append(llmCalls,
                                      IF req.kind = "chat"
                                      THEN ChatCall(r, req.body)
                                      ELSE EmbeddingCall(r, req.body))
                /\ inFlight' = inFlight \cup {r}
                /\ loopTask' = LoopDuringCall(r)
           ELSE /\ requests' = [requests EXCEPT ![r].st = "rejected",
                                                ![r].result = "ValidationError"]
                /\ UNCHANGED <<llmCalls, inFlight, loopTask>>
    /\ UNCHANGED <<mainPc, serverPc, server_ready>>
    /\ UNCHANGED handlerVars

\* Values the llm collaborator may return.
LlmResults == {"{\"result\": \"chat completion\"}", "{\"result\": \"embedding\"}"}

\* Lines 174, 196, 237 and 241: the endpoint returns what llm returned, and the
\* route returns what the endpoint returned.
RouteResult(v) == v

\* Lines 174 and 196: the call into llm returns its result, or raises.
LlmReturns(r) ==
    /\ r \in inFlight
    /\ inFlight' = inFlight \ {r}
    /\ loopTask' = IF loopTask = r THEN 0 ELSE loopTask
    /\ \/ \E v \in LlmResults :
            requests' = [requests EXCEPT ![r].st = "responded",
                                         ![r].returned = v,
                                         ![r].result = RouteResult(v)]
       \/ requests' = [requests EXCEPT ![r].st = "failed",
                                       ![r].result = "raised"]
    /\ UNCHANGED <<mainPc, serverPc, server_ready, llmCalls>>
    /\ UNCHANGED handlerVars

ServerNext ==
    \/ ThreadStart
    \/ WaitReturns
    \/ LifespanStartup
    \/ ServerFailsEarly
    \/ Bind
    \/ \E r \in Requests : SendRequest(r)
    \/ \E r \in Requests : Dispatch(r)
    \/ \E r \in Requests : LlmReturns(r)

HandlerIdle ==
    /\ messages = <<>>
    /\ tools = NoTools
    /\ stream = FALSE
    /\ pc = "idle"
    /\ header = None
    /\ idx = 0
    /\ state = ResetState
    /\ lines = <<>>
    /\ prompt = None
    /\ calls = <<>>
    /\ completion = <<>>
    /\ response = <<>>
    /\ error = NoError

-----------------------------------------------------------------------------
(* Specifications *)

ServerIdle ==
    /\ mainPc = "idle"
    /\ serverPc = "idle"
    /\ server_ready = FALSE
    /\ requests = <<>>
    /\ loopTask = 0
    /\ inFlight = {}
    /\ llmCalls = <<>>

Init == HandlerInit /\ ServerIdle

Next == HandlerNext

\* One call of the handler.
Spec == Init /\ [][Next]_vars

InitServer == ServerInit /\ HandlerIdle

NextServer == ServerNext

\* The API server and its clients.
SpecServer == InitServer /\ [][NextServer]_vars

\* The API server with its two threads scheduled: the main thread takes its
\* steps when it can (thread.start(), the return from server_ready.wait()),
\* and the server thread runs uvicorn.run, which starts the application or
\* fails, and then binds or fails to bind.
SpecServerLive ==
    /\ InitServer
    /\ [][NextServer]_vars
    /\ WF_vars(ThreadStart)
    /\ WF_vars(WaitReturns)
    /\ WF_vars(LifespanStartup \/ ServerFailsEarly)
    /\ WF_vars(Bind)

-----------------------------------------------------------------------------
(* Claims about the handler (Spec) *)

Compiled == prompt # None

NoHeaderTools == tools.none \/ tools.list = <<>>

IsPlain(m) == m.content # None /\ m.function_call = <<>> /\ m.tool_calls = <<>>

Roles == [k \in 1..Len(messages) |-> messages[k].role]

\* C1: [system, user, assistant, user] with plain contents and no tools
\* compiles to exactly two blocks joined by one newline: the first is
\* "<s>[INST] <<SYS>>\n{system}\n<</SYS>>\n\n{user} [/INST] {assistant}</s>",
\* the second is "[INST] {user} [/INST]" for the last user turn.
C1_Case ==
    /\ Roles = <<"system", "user", "assistant", "user">>
    /\ \A k \in 1..4 : IsPlain(messages[k])
    /\ NoHeaderTools

C1_TwoBlocks ==
    (C1_Case /\ pc \notin {"format_tools", "format_messages"}) =>
        LET first == "<s>[INST] <<SYS>>\n" \o messages[1].content \o "\n<</SYS>>\n\n"
                     \o messages[2].content \o " [/INST] " \o messages[3].content
                     \o "</s>"
            second == "[INST] " \o messages[4].content \o " [/INST]"
        IN  /\ lines = <<first, second>>
            /\ prompt = first \o "\n" \o second

C1_Witness ==
    /\ C1_Case
    /\ Compiled
    /\ messages[2].content # messages[4].content

\* C2 (as claimed): once the inference result is parsed, a raw text that fails
\* to decode, or decodes to a value without both `function` and `arguments`,
\* yields the plain assistant message carrying the raw text, and no exception
\* leaves the parser.
HasCallShape(v) == HasKey(v, "function") /\ HasKey(v, "arguments")

C2_ParserTotal ==
    (pc = "done" /\ completion # <<>>) =>
        LET text == completion[1].choices[1].text
            decoded == JsonLoads(text)
        IN  (~decoded.ok \/ ~HasCallShape(decoded.v)) =>
                /\ error = NoError
                /\ response # <<>>
                /\ response[1].choices[1].message
                     = [role |-> "assistant", content |-> text]

\* C3: in every response, if the raw text was parsed as a function call the
\* message has content None, one tool call with id = the function name, type
\* "function", function = {name, arguments: the arguments dumped as JSON} and
\* function_call equal to that function; otherwise the message is exactly
\* {role, content: raw text}, with no tool_calls and no function_call key.
C3_ResponseMessage ==
    (pc = "done" /\ response # <<>>) =>
        LET text == completion[1].choices[1].text
            decoded == JsonLoads(text)
            msg == response[1].choices[1].message
        IN  IF decoded.ok
            THEN /\ DOMAIN msg = {"role", "content", "tool_calls", "function_call"}
                 /\ msg.role = "assistant"
                 /\ msg.content = None
                 /\ Len(msg.tool_calls) = 1
                 /\ msg.tool_calls[1].id = GetItem(decoded.v, "function").v
                 /\ msg.tool_calls[1].type = "function"
                 /\ msg.tool_calls[1].function.name = msg.tool_calls[1].id
                 /\ msg.tool_calls[1].function.arguments
                      = Dumps(GetItem(decoded.v, "arguments").v, 2, 0)
                 /\ msg.function_call = msg.tool_calls[1].function
                 /\ text = TextWeatherCall =>
                      /\ msg.tool_calls[1].id = JStr("weather")
                      /\ msg.function_call.arguments = "{\n  \"location\": \"Tokyo\"\n}"
            ELSE /\ DOMAIN msg = {"role", "content"}
                 /\ msg.role = "assistant"
                 /\ msg.content = text

C3_Witness ==
    /\ pc = "done"
    /\ response # <<>>
    /\ completion[1].choices[1].text = TextWeatherCall
    /\ response[1].choices[1].message.content = None

\* C4: a call with stream = True never reaches llama.create_completion (no
\* call is ever recorded) and ends with an exception and no response.
C4_StreamRejected ==
    stream =>
        /\ calls = <<>>
        /\ completion = <<>>
        /\ pc \notin {"create_completion", "respond"}
        /\ pc = "done" => (error # NoError /\ response = <<>>)

C4_Witness ==
    /\ stream
    /\ pc = "done"
    /\ error = Raised("AssertionError", 0)
    /\ Compiled

\* C5: when some turn has an unrecognised role, the loop never passes the
\* first such turn: reaching it raises ValueError at that turn; whatever was
\* flushed before, no prompt is returned, llama.create_completion is never
\* called and no response is produced.
KnownRoles == {"system", "user", "assistant", "function"}

UnknownTurns == { k \in 1..Len(messages) : messages[k].role \notin KnownRoles }

FirstUnknown == CHOOSE k \in UnknownTurns : \A j \in UnknownTurns : k <= j

C5_UnknownRoleAborts ==
    UnknownTurns # {} =>
        /\ prompt = None
        /\ calls = <<>>
        /\ response = <<>>
        /\ pc \in {"format_tools", "format_messages", "done"}
        /\ idx <= FirstUnknown
        /\ idx = FirstUnknown =>
              (pc = "done" /\ error = Raised("ValueError", FirstUnknown))
        /\ pc = "done" => error # NoError

C5_Witness ==
    /\ UnknownTurns # {}
    /\ pc = "done"
    /\ error = Raised("ValueError", FirstUnknown)
    /\ lines # <<>>

\* C9: the header is "" when tools is None or empty; for tools that all carry
\* a description it is <FUNCTIONS> + the 4-space-indented JSON array with one
\* {function, description, arguments: [{name, type}...]} entry per tool, in
\* tool order and without `required`, + </FUNCTIONS>\n\n; the prompt is the
\* header followed by the compiled blocks.
ExpectedEntry(tool) ==
    CASE tool = WeatherTool ->
            "    {\n        \"function\": \"weather\",\n"
            \o "        \"description\": \"Get the weather\",\n"
            \o "        \"arguments\": [\n            {\n"
            \o "                \"name\": \"location\",\n"
            \o "                \"type\": \"string\"\n            }\n        ]\n    }"
      [] tool = ConvertTool ->
            "    {\n        \"function\": \"convert\",\n"
            \o "        \"description\": \"Convert currency\",\n"
            \o "        \"arguments\": [\n            {\n"
            \o "                \"name\": \"amount\",\n"
            \o "                \"type\": \"number\"\n            },\n            {\n"
            \o "                \"name\": \"currency\",\n"
            \o "                \"type\": \"string\"\n            }\n        ]\n    }"

AllDescribed == \A k \in 1..Len(tools.list) : tools.list[k].description # None

C9_ToolsHeader ==
    /\ (pc # "format_tools" /\ NoHeaderTools) => header = ""
    /\ (pc # "format_tools" /\ ~NoHeaderTools /\ AllDescribed) =>
          header = "<FUNCTIONS>[\n"
                   \o Join([k \in 1..Len(tools.list) |-> ExpectedEntry(tools.list[k])],
                           ",\n")
                   \o "\n]</FUNCTIONS>\n\n"
    /\ Compiled => prompt = header \o Join(lines, "\n")
    /\ (Compiled /\ tools = ToolList(<<WeatherTool>>)
          /\ messages = <<Plain("user", "hello")>>) =>
          prompt = "<FUNCTIONS>[\n" \o ExpectedEntry(WeatherTool)
                   \o "\n]</FUNCTIONS>\n\n[INST] hello [/INST]"

C9_Witness ==
    /\ Compiled
    /\ tools = ToolList(<<ConvertTool, WeatherTool>>)
    /\ lines # <<>>

\* C10 (as claimed): exactly one user turn (with content), no system and no
\* assistant turn, tools empty: the prompt is "[INST] {user_content} [/INST]".
UserTurns == { k \in 1..Len(messages) : messages[k].role = "user" }

TheUser == messages[CHOOSE k \in UserTurns : TRUE]

C10_Original ==
    ( /\ Compiled
      /\ NoHeaderTools
      /\ Cardinality(UserTurns) = 1
      /\ TheUser.content # None
      /\ \A k \in 1..Len(messages) : messages[k].role \notin {"system", "assistant"} )
    => prompt = "[INST] " \o TheUser.content \o " [/INST]"

\* C10 (amended): a sequence that is one user turn with content and nothing
\* else (no system, assistant or function turn), tools empty, compiles, and
\* the prompt is exactly "[INST] {user_content} [/INST]" with no header.
C10_Case ==
    /\ Len(messages) = 1
    /\ messages[1].role = "user"
    /\ messages[1].content # None
    /\ NoHeaderTools

C10_SingleUser ==
    (C10_Case /\ pc \notin {"format_tools", "format_messages"}) =>
        /\ prompt = "[INST] " \o messages[1].content \o " [/INST]"
        /\ lines = << prompt >>

C10_Witness ==
    /\ C10_Case
    /\ pc = "done"
    /\ response # <<>>

\* C13: every response has exactly one choice, with index 0 and finish_reason
\* "stop"; its id is "chat" followed by the completion's id, its object is
\* "chat.completion", and created, model and usage are the completion's,
\* whether the text was parsed as a function call or not.
C13_ResponseEnvelope ==
    response # <<>> =>
        LET c == completion[1]
            res == response[1]
        IN  /\ Len(response) = 1
            /\ DOMAIN res = {"id", "object", "created", "model", "choices", "usage"}
            /\ Len(res.choices) = 1
            /\ DOMAIN res.choices[1] = {"index", "message", "finish_reason"}
            /\ res.choices[1].index = 0
            /\ res.choices[1].finish_reason = "stop"
            /\ res.id = "chat" \o c.id
            /\ res.id = "chatcmpl-1"
            /\ res.object = "chat.completion"
            /\ res.created = c.created
            /\ res.model = c.model
            /\ res.usage = c.usage

C13_Witness ==
    /\ pc = "done"
    /\ response # <<>>
    /\ "tool_calls" \in DOMAIN response[1].choices[1].message
    /\ response[1].choices[1].finish_reason = "stop"
    /\ response[1].usage.total_tokens = 10

Slots == {"system", "user", "assistant"}

\* The slot the claims assign to a turn of a known role.
SlotOf(role) == IF role \in {"user", "function"} THEN "user" ELSE role

Flushed == Len(lines') = Len(lines) + 1 /\ SubSeq(lines', 1, Len(lines)) = lines

\* C14: in every step that processes a turn of a known role, a flush happens
\* if and only if the turn's target slot holds a value; a flush appends one
\* line and leaves all slots but the one then written empty, and without a
\* flush lines and the other slots are untouched, so the slot written was
\* empty at the write; the step after the last turn flushes once more,
\* unless all three slots are empty.
C14_FlushStep ==
    /\ (pc = "format_messages" /\ idx' = idx + 1
           /\ messages[idx + 1].role \in KnownRoles) =>
          LET slot == SlotOf(messages[idx + 1].role)
          IN  /\ Flushed <=> state[slot] # None
              /\ Flushed \/ lines' = lines
              /\ \A s \in Slots \ {slot} :
                    state'[s] = IF Flushed THEN None ELSE state[s]
              /\ ~Flushed => state[slot] = None
    /\ (pc = "format_messages" /\ pc' = "assert_stream") =>
          /\ idx = Len(messages)
          /\ Flushed <=> \E s \in Slots : state[s] # None
          /\ Flushed \/ lines' = lines

C14_NoOverwrite == [][C14_FlushStep]_vars

C14_Witness ==
    /\ pc = "format_messages"
    /\ idx = 3
    /\ Len(lines) = 1
    /\ state.user # None
    /\ state.system # None
    /\ state.assistant = None

\* C15 (as claimed): with stream = True the assertion is the first step: no
\* turn is processed and no prompt is compiled, and the only exception the
\* call can end with is the AssertionError, whatever the turns contain.
C15_StreamGuardFirst ==
    (stream /\ tools.none) =>
        /\ idx = 0
        /\ prompt = None
        /\ error \in {NoError, Raised("AssertionError", 0)}

\* The function call an assistant turn carries, if any (tool_calls first).
CallsCarried(m) ==
    IF m.role # "assistant" THEN <<>>
    ELSE IF m.tool_calls # <<>> THEN <<m.tool_calls[1].function>>
    ELSE m.function_call

\* The turns carrying a function call whose arguments string is not JSON.
UndecodableTurns ==
    { k \in 1..Len(messages) :
        /\ CallsCarried(messages[k]) # <<>>
        /\ ~JsonLoads(CallsCarried(messages[k])[1].arguments).ok }

\* C16 (as claimed): when all roles are known no turn makes compilation fail,
\* and once the turns are processed there is a prompt string.
C16_Original ==
    UnknownTurns = {} =>
        /\ error # NoError => error.at = 0
        /\ (header # None /\ pc \notin {"format_tools", "format_messages"}) =>
              prompt # None

FailingTurns == UnknownTurns \cup UndecodableTurns

FirstFailing == CHOOSE k \in FailingTurns : \A j \in FailingTurns : k <= j

\* C16 (amended): compiling the turns fails in exactly two ways, at the first
\* turn that has an unknown role (ValueError) or carries a function call whose
\* arguments are not valid JSON (JSONDecodeError), and then no prompt exists;
\* when there is no such turn, no turn fails and once the header is built and
\* the turns are processed the prompt is the header followed by the lines.
C16_TwoFailurePaths ==
    /\ (error # NoError /\ error.at # 0) =>
          /\ FailingTurns # {}
          /\ error.at = FirstFailing
          /\ error.kind = IF FirstFailing \in UnknownTurns
                          THEN "ValueError" ELSE "JSONDecodeError"
    /\ FailingTurns # {} =>
          /\ prompt = None
          /\ idx <= FirstFailing
          /\ idx = FirstFailing => error = Raised(error.kind, FirstFailing)
    /\ (FailingTurns = {} /\ header # None
           /\ pc \notin {"format_tools", "format_messages"}) =>
          /\ prompt # None
          /\ prompt = header \o Join(lines, "\n")

C16_Witness ==
    /\ FailingTurns = {}
    /\ prompt # None
    /\ \E k \in 1..Len(messages) : CallsCarried(messages[k]) # <<>>
    /\ \E k \in 1..Len(messages) : messages[k].role = "function"
    /\ Len(lines) = 2

\* A decoded value that is an object whose function is a string and whose
\* arguments is an object.
HasTypedCallShape(v) ==
    /\ v.t = "obj"
    /\ HasCallShape(v)
    /\ GetItem(v, "function").v.t = "str"
    /\ GetItem(v, "arguments").v.t = "obj"

\* C17 (as claimed): a response carries a function call only when the raw
\* text decodes to an object with a string `function` and an object
\* `arguments`; a decoded object with both keys but other types yields the
\* plain message carrying the raw text.
C17_TypedShapeOnly ==
    (pc = "done" /\ response # <<>>) =>
        LET text == completion[1].choices[1].text
            decoded == JsonLoads(text)
            msg == response[1].choices[1].message
        IN  /\ "tool_calls" \in DOMAIN msg =>
                  (decoded.ok /\ HasTypedCallShape(decoded.v))
            /\ (decoded.ok /\ HasCallShape(decoded.v)
                  /\ ~HasTypedCallShape(decoded.v)) =>
                  msg = [role |-> "assistant", content |-> text]

\* The tool round trip: user, assistant with a function call, function, assistant.
RoundTrip ==
    << Plain("user", "hello"),
       Msg("assistant", None, <<GoodCall>>, <<>>),
       Plain("function", "sunny"),
       Plain("assistant", "hi") >>

RoundTripLines ==
    << "<s>[INST] hello [/INST] "
       \o "{\"function\": \"weather\", \"arguments\": {\"location\": \"Tokyo\"}}</s>",
       "<s>[INST] Here is the response to that function call:\n\n\"sunny\" [/INST] hi</s>" >>

\* C18: a step that processes a function turn or a user turn flushes if and
\* only if the user slot holds a value, leaves the system and assistant
\* slots as a flush or its absence leaves them, and writes the user slot:
\* the wrapper around the content for a function turn, the content for a
\* user turn. The round trip user, assistant with function call, function,
\* assistant compiles to exactly two blocks: the user turn with the
\* serialized call, then the wrapped result with the final assistant content.
C18_FunctionTurnStep ==
    /\ (pc = "format_messages" /\ idx' = idx + 1
           /\ messages[idx + 1].role \in {"function", "user"}) =>
          LET m == messages[idx + 1]
          IN  /\ pc' = "format_messages"
              /\ Flushed <=> state.user # None
              /\ Flushed \/ lines' = lines
              /\ state'.user =
                    IF m.role = "function"
                    THEN "Here is the response to that function call:\n\n\""
                         \o Str(m.content) \o "\""
                    ELSE m.content
              /\ \A s \in {"system", "assistant"} :
                    state'[s] = IF Flushed THEN None ELSE state[s]
    /\ (messages = RoundTrip /\ pc = "format_messages" /\ pc' = "assert_stream") =>
          /\ lines' = RoundTripLines
          /\ prompt' = header \o RoundTripLines[1] \o "\n" \o RoundTripLines[2]

C18_FunctionLikeUser == [][C18_FunctionTurnStep]_vars

C18_Witness ==
    /\ messages = RoundTrip
    /\ pc = "done"
    /\ response # <<>>
    /\ tools.none
    /\ prompt = RoundTripLines[1] \o "\n" \o RoundTripLines[2]

\* C20 (as claimed): every line a flush has appended is a non-empty block, so
\* no empty line stands before or between the blocks of the prompt.
C20_NoEmptyLine == \A k \in 1..Len(lines) : lines[k] # ""

\* The positions at which the string part occurs in the string whole.
Positions(part, whole) ==
    { p \in 1..(Len(whole) - Len(part) + 1) :
        SubSeq(whole, p, p + Len(part) - 1) = part }

\* The content a turn stores in its slot, as the claims state it: the
\* serialized call, the wrapper around a function result, or the content.
StoredContent(m) ==
    IF CallsCarried(m) # <<>>
    THEN IF CallsCarried(m)[1] = GoodCall
         THEN "{\"function\": \"weather\", \"arguments\": {\"location\": \"Tokyo\"}}"
         ELSE None
    ELSE IF m.role = "function"
    THEN "Here is the response to that function call:\n\n\"" \o Str(m.content) \o "\""
    ELSE m.content

\* The user, function and assistant turns that store a string.
ContentTurns ==
    { k \in 1..Len(messages) :
        /\ messages[k].role \in {"user", "function", "assistant"}
        /\ StoredContent(messages[k]) # None }

\* C21 (as claimed): when compilation has returned, for any two user,
\* function or assistant turns the stored content of the earlier one occurs
\* in the prompt before the stored content of the later one.
C21_OrderPreserved ==
    pc = "assert_stream" =>
        \A i, j \in ContentTurns :
            i < j =>
                \E p \in Positions(StoredContent(messages[i]), prompt) :
                    \E q \in Positions(StoredContent(messages[j]), prompt) :
                        p + Len(StoredContent(messages[i])) <= q

\* The stored contents of the user, function and assistant turns.
StoredContents == { StoredContent(messages[k]) : k \in ContentTurns }

\* C22: the emitted blocks never outnumber the turns, and when compilation
\* has returned every stored content of a user, function or assistant turn
\* occurs at most once in a block and in exactly as many blocks as there are
\* turns storing it (in one block for a content stored by one turn).
C22_NoTurnLostOrDuplicated ==
    /\ Len(lines) <= Len(messages)
    /\ pc = "assert_stream" =>
          \A c \in StoredContents :
              LET turns == { k \in ContentTurns : StoredContent(messages[k]) = c }
                  count == [b \in 1..Len(lines) |-> Cardinality(Positions(c, lines[b]))]
              IN  /\ \A b \in 1..Len(lines) : count[b] <= 1
                  /\ Cardinality({ b \in 1..Len(lines) : count[b] = 1 })
                       = Cardinality(turns)

C22_Witness ==
    /\ pc = "assert_stream"
    /\ ContentTurns = 1..4
    /\ messages[1] = messages[3]
    /\ messages[2].role = "assistant"
    /\ Len(lines) = 3

-----------------------------------------------------------------------------
(* Claims about the API server (SpecServer) *)

\* C6: at most one call into llm (create_chat_completion or create_embedding)
\* is in flight at any moment.
C6_OneInFlight == Cardinality(inFlight) <= 1

C6_Witness ==
    \E r, q \in Requests :
        /\ r # q
        /\ inFlight = {r}
        /\ requests[r].kind = "chat"
        /\ requests[q].st = "received"
        /\ requests[q].kind = "embeddings"
        /\ ValidEmbeddingsRequest(requests[q].body)

\* C7 (as claimed): server_ready is set, and start_openai_api_server has
\* returned, only when the server's socket is bound and listening.
C7_ReadyOnlyWhenListening ==
    /\ server_ready => serverPc = "listening"
    /\ mainPc = "returned" => serverPc = "listening"

\* C8 (as claimed): no call of llm.create_chat_completion carries a message
\* whose role is outside system, user, assistant, function: such a request is
\* rejected with a ValidationError before the call.
C8_UnknownRoleRejected ==
    \A k \in 1..Len(llmCalls) :
        llmCalls[k].fn = "create_chat_completion" =>
            \A j \in 1..Len(llmCalls[k].messages) :
                llmCalls[k].messages[j].role \in KnownRoles

\* The positions in llmCalls of the calls made for request r.
CallsOf(r) == {k \in 1..Len(llmCalls) : llmCalls[k].request = r}

\* The messages of a request body as the claim states them: the original
\* order, null name and function_call left out, content always there.
ForwardedMessages(body) ==
    [k \in 1..Len(body.messages) |->
        LET m == body.messages[k]
        IN  [role |-> m.role.s,
             content |-> IF m.content = JNull THEN None ELSE m.content.s,
             name |-> IF m.name = JNull THEN <<>> ELSE <<m.name.s>>,
             function_call |-> m.function_call]]

\* C11: a valid chat completions request is never rejected and never makes
\* more than one call; once it has entered llm there is exactly one call of
\* create_chat_completion for it, with the request's messages in order (null
\* optional fields omitted, content kept as None) and tools None when the
\* request has none; the response is the value that call returned (for the
\* body {"messages": [{"role": "user", "content": "Hello"}]} the call carries
\* exactly that one message and tools None).
C11_ChatForwarded ==
    \A r \in Requests :
        (requests[r].kind = "chat" /\ ValidChatRequest(requests[r].body)) =>
            LET q == requests[r]
                mine == CallsOf(r)
            IN  /\ q.st # "rejected"
                /\ Cardinality(mine) <= 1
                /\ q.st \in {"received", "refused"} => mine = {}
                /\ q.st \in {"calling", "responded", "failed"} =>
                      /\ Cardinality(mine) = 1
                      /\ \A k \in mine :
                            /\ DOMAIN llmCalls[k] = {"fn", "request", "messages", "tools"}
                            /\ llmCalls[k].fn = "create_chat_completion"
                            /\ llmCalls[k].messages = ForwardedMessages(q.body)
                            /\ llmCalls[k].tools = q.body.tools
                            /\ q.body.tools.none => llmCalls[k].tools = NoTools
                            /\ q.body.messages = <<UserHello>> =>
                                  llmCalls[k].messages =
                                      << [role |-> "user", content |-> "Hello",
                                          name |-> <<>>, function_call |-> <<>>] >>
                /\ q.st = "responded" =>
                      /\ q.returned \in LlmResults
                      /\ q.result = q.returned

C11_Witness ==
    \E r \in Requests :
        /\ requests[r].kind = "chat"
        /\ requests[r].st = "responded"
        /\ requests[r].body.tools = NoTools
        /\ requests[r].result = "{\"result\": \"chat completion\"}"
        /\ \E q \in Requests :
              /\ requests[q].kind = "chat"
              /\ requests[q].st = "calling"
              /\ Len(requests[q].body.messages) = 4
              /\ \E k \in CallsOf(q) : llmCalls[k].messages[3].content = None

\* C12: a valid embeddings request is never rejected; once it has entered llm
\* there is exactly one call of create_embedding for it, carrying the
\* request's input and model and no encoding_format; the response is the
\* value that call returned.
C12_EmbeddingForwarded ==
    \A r \in Requests :
        (requests[r].kind = "embeddings" /\ ValidEmbeddingsRequest(requests[r].body)) =>
            LET q == requests[r]
                mine == CallsOf(r)
            IN  /\ q.st # "rejected"
                /\ Cardinality(mine) <= 1
                /\ q.st \in {"received", "refused"} => mine = {}
                /\ q.st \in {"calling", "responded", "failed"} =>
                      /\ Cardinality(mine) = 1
                      /\ \A k \in mine :
                            /\ DOMAIN llmCalls[k] = {"fn", "request", "input", "model"}
                            /\ llmCalls[k].fn = "create_embedding"
                            /\ llmCalls[k].input = q.body.input
                            /\ llmCalls[k].model = q.body.model.s
                /\ q.st = "responded" =>
                      /\ q.returned \in LlmResults
                      /\ q.result = q.returned

C12_Witness ==
    \E r \in Requests :
        /\ requests[r].kind = "embeddings"
        /\ requests[r].st = "responded"
        /\ requests[r].body.encoding_format = JStr("float")
        /\ requests[r].result = "{\"result\": \"embedding\"}"
        /\ \E k \in CallsOf(r) : llmCalls[k].input = requests[r].body.input

\* C19 (as claimed): every message passed to llm.create_chat_completion has
\* content None only if it carries a function call.
C19_ContentOrCall ==
    \A k \in 1..Len(llmCalls) :
        llmCalls[k].fn = "create_chat_completion" =>
            \A j \in 1..Len(llmCalls[k].messages) :
                llmCalls[k].messages[j].content = None =>
                    llmCalls[k].messages[j].function_call # <<>>

\* C23 (as claimed): start_openai_api_server returns only after server_ready
\* has been set, and in every execution it eventually returns, also when the
\* server thread fails before the application starts.
C23_ReadyThenReturns ==
    /\ [](mainPc = "returned" => server_ready)
    /\ <>(mainPc = "returned")

====
